---- MODULE Spec2Model ----
(***************************************************************************)
(* A model of the hnsw crate's NearestQueue (src/src/nearest_queue.rs) and *)
(* of its Distance implementations (src/src/distance.rs).                  *)
(*                                                                         *)
(* The queue is the struct's four fields.  Every method is an operator     *)
(* over a record of those fields, translated statement by statement, and   *)
(* every call a client can make is one action.  The remaining variables    *)
(* record what the client observes: the queue before the last call, the    *)
(* call with its arguments and results, and the accepted calls to insert   *)
(* since the last reset.                                                   *)
(***************************************************************************)
EXTENDS Integers, Sequences, FiniteSets, TLC

VARIABLES
    cap,        \* NearestQueue.cap
    size,       \* NearestQueue.size
    worst,      \* NearestQueue.worst
    distances,  \* NearestQueue.distances: bucket index -> Vec<T>
    panicked,   \* a call has panicked; the thread of control has ended
    stream,     \* distances of the insert calls that returned since the last reset;
                \* the item passed by the k-th of them is k
    pre,        \* the queue's fields before the last call
    op,         \* the last call: its name, arguments and results
    dist,       \* a call of Distance::distance: implementation, arguments, result
    hnsw        \* the HNSW index: M, the features, the layers, the entry point,
                \* and the last call of insert or nearest

vars == <<cap, size, worst, distances, panicked, stream, pre, op, dist, hnsw>>

-----------------------------------------------------------------------------
(* Program constants *)

\* [Vec<T>; 129]
NumBuckets == 129

\* self.worst = 128
WorstInit == 128

(* Bounds of the model *)

\* reset is called with cap in 0..MaxCap
MaxCap == 3

\* at most MaxInserts calls of insert return between two resets
MaxInserts == 3

\* insert is called with the distances 0..MaxDist, and with 128 and 129
MaxDist == 1

\* fill_slice is called with slices of length 0..MaxOut
MaxOut == 2

Buckets == 0 .. (NumBuckets - 1)

\* The distances insert is called with: the low ones, the largest bucket
\* index, and the first index that is out of range.
Dists == (0 .. MaxDist) \cup {NumBuckets - 1, NumBuckets}

-----------------------------------------------------------------------------
(* Helpers *)

Min(a, b) == IF a <= b THEN a ELSE b

Range(s) == {s[i] : i \in 1 .. Len(s)}

\* The struct as a value.
Self == [cap |-> cap, size |-> size, worst |-> worst, distances |-> distances]

\* A call that returned normally, and one that panicked.
Ok(self, ret) == [self |-> self, ret |-> ret, panic |-> FALSE]

Panic(self) == [self |-> self, ret |-> FALSE, panic |-> TRUE]

\* The call r, returning v unless it panicked.
Returning(r, v) == [r EXCEPT !.ret = (~ r.panic) /\ v]

\* Vec::pop: removes the last element; nothing on an empty vector.
pop(v) == IF v = <<>> THEN v ELSE SubSeq(v, 1, Len(v) - 1)

\* The least element of a non-empty set of integers.
Least(S) == CHOOSE i \in S : \A j \in S : i <= j

\* The buckets in S in ascending index, each front to back, each item paired
\* with the index of its bucket.
RECURSIVE chain(_, _)
chain(ds, S) ==
    IF S = {} THEN <<>>
    ELSE LET i == Least(S)
         IN  [k \in 1 .. Len(ds[i]) |-> <<ds[i][k], i>>] \o chain(ds, S \ {i})

\* distances.iter().flat_map(|v| v.iter()), each item paired with the index
\* of its bucket (as drain's enumerate() pairs it).  An empty bucket
\* contributes nothing, so the walk visits the occupied buckets.
flat_map(ds) == chain(ds, {i \in Buckets : ds[i] # <<>>})

-----------------------------------------------------------------------------
(* NearestQueue *)

\* impl Default: cap 0, size 0, worst 128, 129 empty vectors.
Default ==
    [cap |-> 0, size |-> 0, worst |-> WorstInit,
     distances |-> [i \in Buckets |-> <<>>]]

\* reset without "self.worst = 128".
reset_keep_worst(self, c) ==
    IF c = 0 THEN Panic(self)
    ELSE Ok([cap |-> c, size |-> 0, worst |-> self.worst,
             distances |-> [i \in Buckets |-> <<>>]], FALSE)

\* reset with the assertion after the assignments.
reset_assert_last(self, c) ==
    LET cleared == [cap |-> c, size |-> 0, worst |-> WorstInit,
                    distances |-> [i \in Buckets |-> <<>>]]
    IN  IF c = 0 THEN Panic(cleared) ELSE Ok(cleared, FALSE)

\* reset: the assertion first, then the four assignments.
reset(self, c) ==
    IF c = 0 THEN Panic(self)
    ELSE Ok([cap |-> c, size |-> 0, worst |-> WorstInit,
             distances |-> [i \in Buckets |-> <<>>]], FALSE)

\* distances[0..=worst].iter().rev().position(|v| !v.is_empty()): the number
\* of empty buckets met walking down from worst to the first bucket that is
\* not empty, -1 for None.
position(ds, w) ==
    LET found == {p \in 0 .. w : ds[w - p] # <<>>}
    IN  IF found = {} THEN -1 ELSE Least(found)

\* update_worst leaving worst as it is.
update_worst_stale(self) == Ok(self, FALSE)

\* update_worst: worst -= position(..).unwrap(); unwrap panics on None.
update_worst(self) ==
    LET p == position(self.distances, self.worst)
    IN  IF p = -1 THEN Panic(self)
        ELSE Ok([self EXCEPT !.worst = @ - p], FALSE)

\* remove_worst taking the oldest item of the bucket at worst, not the newest.
remove_worst_front(self) ==
    update_worst([self EXCEPT !.distances[self.worst] =
                      IF @ = <<>> THEN @ ELSE Tail(@)])

\* remove_worst without the pop.
remove_worst_nopop(self) == update_worst(self)

\* remove_worst: pop from the bucket at worst, then update_worst.
remove_worst(self) ==
    update_worst([self EXCEPT !.distances[self.worst] = pop(@)])

\* insert with "distance <= self.worst" in the second condition.
insert_le(self, item, distance) ==
    IF self.size # self.cap THEN
        IF distance >= NumBuckets THEN Panic(self)
        ELSE LET pushed == [self EXCEPT !.distances[distance] = Append(@, item),
                                        !.size = @ + 1]
             IN  IF pushed.size = pushed.cap
                 THEN Returning(update_worst(pushed), TRUE)
                 ELSE Ok(pushed, TRUE)
    ELSE IF distance <= self.worst /\ distance < NumBuckets THEN
        LET pushed == [self EXCEPT !.distances[distance] = Append(@, item)]
        IN  Returning(remove_worst(pushed), TRUE)
    ELSE Ok(self, FALSE)

\* insert evicting before it pushes on a full queue.
insert_pop_first(self, item, distance) ==
    IF self.size # self.cap THEN
        IF distance >= NumBuckets THEN Panic(self)
        ELSE LET pushed == [self EXCEPT !.distances[distance] = Append(@, item),
                                        !.size = @ + 1]
             IN  IF pushed.size = pushed.cap
                 THEN Returning(update_worst(pushed), TRUE)
                 ELSE Ok(pushed, TRUE)
    ELSE IF distance < self.worst THEN
        LET removed == remove_worst(self)
        IN  IF removed.panic THEN removed
            ELSE Ok([removed.self EXCEPT !.distances[distance] = Append(@, item)],
                    TRUE)
    ELSE Ok(self, FALSE)

\* insert counting the item before it indexes the bucket.
insert_count_first(self, item, distance) ==
    IF self.size # self.cap THEN
        IF distance >= NumBuckets THEN Panic([self EXCEPT !.size = @ + 1])
        ELSE LET pushed == [self EXCEPT !.distances[distance] = Append(@, item),
                                        !.size = @ + 1]
             IN  IF pushed.size = pushed.cap
                 THEN Returning(update_worst(pushed), TRUE)
                 ELSE Ok(pushed, TRUE)
    ELSE IF distance < self.worst THEN
        LET pushed == [self EXCEPT !.distances[distance] = Append(@, item)]
        IN  Returning(remove_worst(pushed), TRUE)
    ELSE Ok(self, FALSE)

\* insert.  Indexing distances[distance] panics when distance >= 129, before
\* the push.
insert(self, item, distance) ==
    IF self.size # self.cap THEN
        IF distance >= NumBuckets THEN Panic(self)
        ELSE LET pushed == [self EXCEPT !.distances[distance] = Append(@, item),
                                        !.size = @ + 1]
             IN  IF pushed.size = pushed.cap
                 THEN Returning(update_worst(pushed), TRUE)
                 ELSE Ok(pushed, TRUE)
    ELSE IF distance < self.worst THEN
        LET pushed == [self EXCEPT !.distances[distance] = Append(@, item)]
        IN  Returning(remove_worst(pushed), TRUE)
    ELSE Ok(self, FALSE)

\* fill_slice: the first min(|s|, size) items of the flattened buckets are
\* written to the front of s; the prefix of that length is returned.
fill_slice(self, s) ==
    LET total_fill == Min(Len(s), self.size)
        items == flat_map(self.distances)
        taken == Min(total_fill, Len(items))
    IN  [s |-> [ix \in 1 .. Len(s) |->
                    IF ix <= taken THEN items[ix][1] ELSE s[ix]],
         n |-> total_fill]

\* drain with enumerate() applied after flat_map: each item is paired with
\* its position in the output, not with the index of its bucket.
drain_enumerate_late(self, n) ==
    LET items == flat_map(self.distances)
        reached == IF n = 0 THEN -1
                   ELSE IF n = Len(items) THEN NumBuckets - 1
                   ELSE items[n][2]
    IN  [self |-> [self EXCEPT !.distances =
                      [i \in Buckets |-> IF i <= reached THEN <<>> ELSE @[i]]],
         yielded |-> [k \in 1 .. n |-> <<items[k][1], k - 1>>]]

\* drain that also sets size to 0 and worst back to 128.
drain_resetting(self, n) ==
    LET items == flat_map(self.distances)
        reached == IF n = 0 THEN -1
                   ELSE IF n = Len(items) THEN NumBuckets - 1
                   ELSE items[n][2]
    IN  [self |-> [self EXCEPT !.distances =
                      [i \in Buckets |-> IF i <= reached THEN <<>> ELSE @[i]],
                               !.size = 0, !.worst = WorstInit],
         yielded |-> SubSeq(items, 1, n)]

\* drain, the iterator being dropped after n items were taken from it.  The
\* buckets before the one the n-th item came from are drained to their end;
\* dropping that bucket's Drain removes what is left of it; the buckets after
\* it were never reached.  Consumed to the end, every bucket is emptied.
\* size, worst and cap are not touched.
drain(self, n) ==
    LET items == flat_map(self.distances)
        reached == IF n = 0 THEN -1
                   ELSE IF n = Len(items) THEN NumBuckets - 1
                   ELSE items[n][2]
    IN  [self |-> [self EXCEPT !.distances =
                      [i \in Buckets |-> IF i <= reached THEN <<>> ELSE @[i]]],
         yielded |-> SubSeq(items, 1, n)]

-----------------------------------------------------------------------------
(* Distance *)

\* An unsigned integer of w bits is the set of the positions of its one bits.
Zero == {}

Ones(w) == 0 .. (w - 1)

\* Every other bit, from bit 0.
Stripes(w) == {b \in 0 .. (w - 1) : b % 2 = 0}

\* lhs ^ rhs
xor(lhs, rhs) == (lhs \ rhs) \cup (rhs \ lhs)

\* count_ones()
count_ones(x) == Cardinality(x)

\* .sum::<u32>() and wrapping_sum(): the sums here stay far below 2^32.
RECURSIVE sum(_)
sum(s) == IF s = <<>> THEN 0 ELSE Head(s) + sum(Tail(s))

\* lhs.iter().zip(rhs): as many pairs as the shorter of the two has elements.
zip(lhs, rhs) == [k \in 1 .. Min(Len(lhs), Len(rhs)) |-> <<lhs[k], rhs[k]>>]

\* Hamming<&[u8]> and Hamming<Vec<u8>>: the sum over the zipped bytes.
hamming_bytes(lhs, rhs) ==
    LET pairs == zip(lhs, rhs)
    IN  sum([k \in 1 .. Len(pairs) |-> count_ones(xor(pairs[k][1], pairs[k][2]))])

\* Hamming<u8>, <u16>, <u32>, <u64>, <u128>
hamming_scalar(lhs, rhs) == count_ones(xor(lhs, rhs))

\* Hamming<u128x2>, <u128x4>: the lanes are xored and counted one by one, and
\* the counts summed.
hamming_simd(lhs, rhs) ==
    sum([k \in 1 .. Len(lhs) |-> count_ones(xor(lhs[k], rhs[k]))])

\* Hamming<[u128x4; 1]>, <[u128x4; 2]>, <[u128x4; 4]>, <[u128x4; 8]>
hamming_array(lhs, rhs) ==
    LET pairs == zip(lhs, rhs)
    IN  sum([k \in 1 .. Len(pairs) |-> hamming_simd(pairs[k][1], pairs[k][2])])

\* to_bits with the exponent and the mantissa fields in each other's place.
to_bits_swapped(f) == f.m * 256 + f.e

\* f32::to_bits of a float that is not negative, infinite or NaN: sign 0, the
\* biased exponent e in bits 23..30, the mantissa m in bits 0..22.
to_bits(f) == f.e * 8388608 + f.m

\* impl<T: FloatingDistance> Distance for T; f is what floating_distance
\* returned.
floating(f) == to_bits(f)

-----------------------------------------------------------------------------
(* The HNSW index, as sections 3 and 4.4 of the specification describe it. *)
(* Feature-ids are 0, 1, ...; features[id + 1] is the feature of id;       *)
(* layers[l + 1] maps each feature-id with a node on layer l to the node's *)
(* neighbor list.                                                          *)

\* No call of the index yet.
NoQuery == [name |-> "new", id |-> -1, level |-> 0, ef |-> 0, out |-> <<>>]

\* HNSW::new(M, 2 * M)
EmptyIndex(m) ==
    [m |-> m, features |-> <<>>, layers |-> <<>>, entry |-> -1, last |-> NoQuery]

\* No index.
NoIndex == EmptyIndex(0)

Feature(h, id) == h.features[id + 1]

Layer(h, l) == h.layers[l + 1]

\* The top layer T; -1 on the empty index.
Top(h) == Len(h.layers) - 1

\* M_0 = 2 M on layer 0, M_l = M above.
MaxNeighbors(h, l) == IF l = 0 THEN 2 * h.m ELSE h.m

\* The build-time search width, ef_construction = 2 M.
EfConstruction(h) == 2 * h.m

\* The distance of the index: Hamming over a scalar.
distance(a, b) == hamming_scalar(a, b)

\* The closest pair <<d, id>> of the candidate heap; the lower id among
\* candidates of one distance.
Closest(candidates) ==
    CHOOSE c \in candidates :
        \A o \in candidates : c[1] < o[1] \/ (c[1] = o[1] /\ c[2] <= o[2])

\* For every neighbor n of the popped candidate, from the k-th on, that is not
\* in seen: mark it seen; if its distance d is below nearest.worst() or
\* nearest is not full, push (d, n) onto candidates and insert it into nearest.
RECURSIVE visit(_, _, _, _, _)
visit(h, x, ns, k, st) ==
    IF k > Len(ns) THEN st
    ELSE IF ns[k] \in st.seen THEN visit(h, x, ns, k + 1, st)
    ELSE LET n == ns[k]
             d == distance(x, Feature(h, n))
         IN  IF d < st.nearest.worst \/ st.nearest.size # st.nearest.cap
             THEN visit(h, x, ns, k + 1,
                        [seen |-> st.seen \cup {n},
                         candidates |-> st.candidates \cup {<<d, n>>},
                         nearest |-> insert(st.nearest, n, d).self])
             ELSE visit(h, x, ns, k + 1, [st EXCEPT !.seen = @ \cup {n}])

\* The loop of search_layer: pop the closest candidate; stop when it is
\* farther than nearest.worst() and nearest is full, or when none is left.
RECURSIVE expand(_, _, _, _)
expand(h, x, l, st) ==
    IF st.candidates = {} THEN st.nearest
    ELSE LET c == Closest(st.candidates)
         IN  IF c[1] > st.nearest.worst /\ st.nearest.size = st.nearest.cap
             THEN st.nearest
             ELSE expand(h, x, l,
                         visit(h, x, Layer(h, l)[c[2]], 1,
                               [st EXCEPT !.candidates = @ \ {c}]))

\* search_layer(entry, x, ef, l): the NearestQueue of the best ef feature-ids
\* found on layer l from entry.
search_layer(h, entry, x, ef, l) ==
    LET d == distance(x, Feature(h, entry))
    IN  expand(h, x, l,
               [seen |-> {entry},
                candidates |-> {<<d, entry>>},
                nearest |-> insert(reset(Default, ef).self, entry, d).self])

\* The content of a NearestQueue in ascending distance: pairs <<id, d>>.
Sorted(q) == flat_map(q.distances)

\* Greedy 1-NN descent from ep on the layers l down to stop + 1: the best
\* found on one layer is the entry of the next.
RECURSIVE descend(_, _, _, _, _)
descend(h, x, ep, l, stop) ==
    IF l <= stop THEN ep
    ELSE descend(h, x, Sorted(search_layer(h, ep, x, 1, l))[1][1], l - 1, stop)

\* The heuristic selector over the candidates C[k..], pairs <<id, d>> in
\* ascending distance d to the target: c is selected unless an already
\* selected s is closer to c than the target is; at most m are selected.
RECURSIVE select(_, _, _, _, _)
select(h, C, k, m, selected) ==
    IF k > Len(C) \/ Len(selected) >= m THEN selected
    ELSE LET c == C[k][1]
             chosen == \A j \in 1 .. Len(selected) :
                          ~ (distance(Feature(h, c), Feature(h, selected[j])) < C[k][2])
         IN  select(h, C, k + 1, m, IF chosen THEN Append(selected, c) ELSE selected)

\* The neighbor list ns of j as candidates: pairs <<id, d>>, d the distance
\* to j, in ascending d, neighbors of one distance in the order of the list.
ByDistance(h, j, ns) ==
    LET d(k) == distance(Feature(h, j), Feature(h, ns[k]))
        rank(k) == Cardinality({o \in 1 .. Len(ns) :
                       d(o) < d(k) \/ (d(o) = d(k) /\ o < k)})
    IN  [p \in 1 .. Len(ns) |->
            LET k == CHOOSE k \in 1 .. Len(ns) : rank(k) = p - 1
            IN  <<ns[k], d(k)>>]

\* ns without id.
Without(ns, id) == SelectSeq(ns, LAMBDA n : n # id)

\* Step 6c without the re-pruning of a list that exceeds the cap.
RECURSIVE link_back_unpruned(_, _, _, _, _, _)
link_back_unpruned(h, nodes, i, js, k, m) ==
    IF k > Len(js) THEN nodes
    ELSE link_back_unpruned(h, [nodes EXCEPT ![js[k]] = Append(@, i)],
                            i, js, k + 1, m)

\* Step 6c for the selected neighbors js[k..] of the new node i on the layer
\* nodes: i is added to j's list; a list that now exceeds the cap m is
\* re-pruned by the selector, and if that drops i, i does not list j either.
RECURSIVE link_back(_, _, _, _, _, _)
link_back(h, nodes, i, js, k, m) ==
    IF k > Len(js) THEN nodes
    ELSE LET j == js[k]
             grown == Append(nodes[j], i)
             kept == IF Len(grown) > m
                     THEN select(h, ByDistance(h, j, grown), 1, m, <<>>)
                     ELSE grown
             linked == [nodes EXCEPT ![j] = kept]
         IN  link_back(h, IF i \in Range(kept) THEN linked
                          ELSE [linked EXCEPT ![i] = Without(@, j)],
                       i, js, k + 1, m)

\* Step 6 on the layers l down to 0, entered at ep: search, select, create the
\* node of i, link back, and carry the best candidate to the next layer.
RECURSIVE connect(_, _, _, _, _)
connect(h, x, i, ep, l) ==
    IF l < 0 THEN h
    ELSE LET C == Sorted(search_layer(h, ep, x, EfConstruction(h), l))
             js == select(h, C, 1, MaxNeighbors(h, l), <<>>)
             nodes == link_back(h, Layer(h, l) @@ (i :> js), i, js, 1,
                                MaxNeighbors(h, l))
         IN  connect([h EXCEPT !.layers[l + 1] = nodes], x, i, C[1][1], l - 1)

\* HNSW.insert that skips the connection phase when L > T.
hnsw_insert_unconnected(h, x, L) ==
    LET i == Len(h.features)
        T == Top(h)
        stored == [h EXCEPT !.features = Append(@, x)]
        alone == [l \in 1 .. (L + 1) |-> (i :> <<>>)]
    IN  IF i = 0 THEN [stored EXCEPT !.layers = alone, !.entry = i]
        ELSE IF L > T
             THEN [stored EXCEPT
                      !.layers = @ \o [l \in 1 .. (L - T) |-> (i :> <<>>)],
                      !.entry = i]
             ELSE connect(stored, x, i, descend(stored, x, h.entry, T, L), L)

\* HNSW.insert of the feature x with the sampled level L.
hnsw_insert(h, x, L) ==
    LET i == Len(h.features)
        T == Top(h)
        stored == [h EXCEPT !.features = Append(@, x)]
        alone == [l \in 1 .. (L + 1) |-> (i :> <<>>)]
    IN  IF i = 0 THEN [stored EXCEPT !.layers = alone, !.entry = i]
        ELSE LET ep == descend(stored, x, h.entry, T, L)
                 linked == connect(stored, x, i, ep, Min(L, T))
             IN  IF L > T
                 THEN [linked EXCEPT
                          !.layers = @ \o [l \in 1 .. (L - T) |-> (i :> <<>>)],
                          !.entry = i]
                 ELSE linked

\* HNSW.nearest(x, ef, k, out): the feature-ids written to out.
hnsw_nearest(h, x, ef, k) ==
    IF h.features = <<>> THEN <<>>
    ELSE LET ep == descend(h, x, h.entry, Top(h), 0)
             found == search_layer(h, ep, x, IF ef >= k THEN ef ELSE k, 0)
             filled == fill_slice(found, [ix \in 1 .. k |-> -1])
         IN  SubSeq(filled.s, 1, filled.n)

-----------------------------------------------------------------------------
(* The client *)

NoCall ==
    [name |-> "new", cap |-> 0, item |-> 0, d |-> 0, ret |-> FALSE,
     s |-> <<>>, out |-> <<>>, n |-> 0, yielded |-> <<>>]

NoFloat == [e |-> 0, m |-> 0]

NoDist ==
    [impl |-> "none", lhs |-> <<>>, rhs |-> <<>>, f |-> NoFloat,
     result |-> 0, done |-> FALSE]

\* NearestQueue::new()
Init ==
    /\ cap = Default.cap
    /\ size = Default.size
    /\ worst = Default.worst
    /\ distances = Default.distances
    /\ panicked = FALSE
    /\ stream = <<>>
    /\ pre = Default
    /\ op = NoCall
    /\ dist = NoDist
    /\ hnsw = NoIndex

Store(self) ==
    /\ cap' = self.cap
    /\ size' = self.size
    /\ worst' = self.worst
    /\ distances' = self.distances

Reset ==
    /\ ~ panicked
    /\ \E c \in 0 .. MaxCap :
          LET r == reset(Self, c)
          IN  /\ Store(r.self)
              /\ panicked' = r.panic
              /\ stream' = IF r.panic THEN stream ELSE <<>>
              /\ pre' = Self
              /\ op' = [NoCall EXCEPT !.name = "reset", !.cap = c]
    /\ UNCHANGED <<dist, hnsw>>

Insert ==
    /\ ~ panicked
    /\ Len(stream) < MaxInserts
    /\ \E d \in Dists :
          LET item == Len(stream) + 1
              r == insert(Self, item, d)
          IN  /\ Store(r.self)
              /\ panicked' = r.panic
              /\ stream' = IF r.panic THEN stream ELSE Append(stream, d)
              /\ pre' = Self
              /\ op' = [NoCall EXCEPT !.name = "insert", !.item = item,
                                      !.d = d, !.ret = r.ret]
    /\ UNCHANGED <<dist, hnsw>>

\* The slots of the client's slice hold 0, which is no item: items are 1, 2, ...
FillSlice ==
    /\ ~ panicked
    /\ \E len \in 0 .. MaxOut :
          LET s == [ix \in 1 .. len |-> 0]
              r == fill_slice(Self, s)
          IN  /\ pre' = Self
              /\ op' = [NoCall EXCEPT !.name = "fill_slice", !.s = s,
                                      !.out = r.s, !.n = r.n]
    /\ UNCHANGED <<cap, size, worst, distances, panicked, stream, dist, hnsw>>

Drain ==
    /\ ~ panicked
    /\ \E n \in 0 .. Len(flat_map(distances)) :
          LET r == drain(Self, n)
          IN  /\ Store(r.self)
              /\ pre' = Self
              /\ op' = [NoCall EXCEPT !.name = "drain", !.n = n,
                                      !.yielded = r.yielded]
    /\ UNCHANGED <<panicked, stream, dist, hnsw>>

Next == Reset \/ Insert \/ FillSlice \/ Drain

Spec == Init /\ [][Next]_vars

\* The client that never drains: reset, insert and fill_slice only.
NextInsert == Reset \/ Insert \/ FillSlice

SpecInsert == Init /\ [][NextInsert]_vars

-----------------------------------------------------------------------------
(* The calls of Distance::distance *)

\* Hamming over byte slices and vectors is called with up to MaxBytes bytes
MaxBytes == 17

ScalarWidth == [u8 |-> 8, u16 |-> 16, u32 |-> 32, u64 |-> 64, u128 |-> 128]

SimdLanes == [u128x2 |-> 2, u128x4 |-> 4]

ArrayLen == [array1 |-> 1, array2 |-> 2, array4 |-> 4, array8 |-> 8]

\* A scalar of w bits: all zeros, one bit, every other bit, all ones.
ScalarValues(w) == {Zero, {0}, Stripes(w), Ones(w)}

\* A vector of n lanes of 128 bits, each lane all zeros or all ones.
SimdValues(n) == [1 .. n -> {Zero, Ones(128)}]

\* An array of n u128x4: all zeros, all ones, or the first element all ones.
ArrayValues(n) ==
    LET zeros == [k \in 1 .. 4 |-> Zero]
        ones == [k \in 1 .. 4 |-> Ones(128)]
    IN  {[k \in 1 .. n |-> zeros], [k \in 1 .. n |-> ones],
         [k \in 1 .. n |-> IF k = 1 THEN ones ELSE zeros]}

\* Up to MaxBytes bytes, all 0x00 or all 0xFF.
BytesValues ==
    {[k \in 1 .. n |-> b] : n \in 0 .. MaxBytes, b \in {Zero, Ones(8)}}

\* What floating_distance may return: zero, the least subnormal, the least
\* normal, 1.0, and the greatest finite float among them.
FloatValues == [e : {0, 1, 127, 254}, m : {0, 1, 8388607}]

Calls(i, values) ==
    {[NoDist EXCEPT !.impl = i, !.lhs = l, !.rhs = r] : l \in values, r \in values}

InitDist ==
    /\ cap = Default.cap
    /\ size = Default.size
    /\ worst = Default.worst
    /\ distances = Default.distances
    /\ panicked = FALSE
    /\ stream = <<>>
    /\ pre = Default
    /\ op = NoCall
    /\ hnsw = NoIndex
    /\ \/ \E i \in DOMAIN ScalarWidth : dist \in Calls(i, ScalarValues(ScalarWidth[i]))
       \/ \E i \in DOMAIN SimdLanes : dist \in Calls(i, SimdValues(SimdLanes[i]))
       \/ \E i \in DOMAIN ArrayLen : dist \in Calls(i, ArrayValues(ArrayLen[i]))
       \/ \E i \in {"slice", "vec"} : dist \in Calls(i, BytesValues)
       \/ \E f \in FloatValues : dist = [NoDist EXCEPT !.impl = "floating", !.f = f]

Returns(result) ==
    /\ ~ dist.done
    /\ dist' = [dist EXCEPT !.result = result, !.done = TRUE]
    /\ UNCHANGED <<cap, size, worst, distances, panicked, stream, pre, op, hnsw>>

DistanceBytes ==
    /\ dist.impl \in {"slice", "vec"}
    /\ Returns(hamming_bytes(dist.lhs, dist.rhs))

DistanceScalar ==
    /\ dist.impl \in DOMAIN ScalarWidth
    /\ Returns(hamming_scalar(dist.lhs, dist.rhs))

DistanceSimd ==
    /\ dist.impl \in DOMAIN SimdLanes
    /\ Returns(hamming_simd(dist.lhs, dist.rhs))

DistanceArray ==
    /\ dist.impl \in DOMAIN ArrayLen
    /\ Returns(hamming_array(dist.lhs, dist.rhs))

DistanceFloating ==
    /\ dist.impl = "floating"
    /\ Returns(floating(dist.f))

NextDist ==
    \/ DistanceBytes
    \/ DistanceScalar
    \/ DistanceSimd
    \/ DistanceArray
    \/ DistanceFloating

SpecDist == InitDist /\ [][NextDist]_vars

\* Two calls of the distance derived from FloatingDistance, floating_distance
\* returning lhs in the first and rhs in the second.
InitOrder ==
    /\ cap = Default.cap
    /\ size = Default.size
    /\ worst = Default.worst
    /\ distances = Default.distances
    /\ panicked = FALSE
    /\ stream = <<>>
    /\ pre = Default
    /\ op = NoCall
    /\ hnsw = NoIndex
    /\ \E a \in FloatValues, b \in FloatValues :
          dist = [NoDist EXCEPT !.impl = "floating", !.lhs = a, !.rhs = b]

DistanceFloatingTwice ==
    /\ dist.impl = "floating"
    /\ Returns(<<floating(dist.lhs), floating(dist.rhs)>>)

NextOrder == DistanceFloatingTwice

SpecOrder == InitOrder /\ [][NextOrder]_vars

-----------------------------------------------------------------------------
(* The calls of the HNSW index *)

\* at most MaxNodes features are inserted
MaxNodes == 4

\* The index is built with M = 1 or M = 2.
Ms == {1, 2}

\* The sampled level of an insert.
Levels == {0, 1}

\* nearest is called with ef = 1 or ef = 2.
Efs == {1, 2}

\* The features inserted: the Hamming<u8> values 0x00, 0x01 and 0x03.
Features == {Zero, {0}, {0, 1}}

InitHnsw ==
    /\ cap = Default.cap
    /\ size = Default.size
    /\ worst = Default.worst
    /\ distances = Default.distances
    /\ panicked = FALSE
    /\ stream = <<>>
    /\ pre = Default
    /\ op = NoCall
    /\ dist = NoDist
    /\ \E m \in Ms : hnsw = EmptyIndex(m)

\* nearest leaves the index as it is, so the calls after a nearest reach
\* nothing the calls before it do not: a behaviour ends with its nearest.
HnswInsert ==
    /\ hnsw.last.name # "nearest"
    /\ Len(hnsw.features) < MaxNodes
    /\ \E x \in Features, L \in Levels :
          hnsw' = [hnsw_insert(hnsw, x, L) EXCEPT
                      !.last = [NoQuery EXCEPT !.name = "insert",
                                               !.id = Len(hnsw.features),
                                               !.level = L]]
    /\ UNCHANGED <<cap, size, worst, distances, panicked, stream, pre, op, dist>>

\* nearest(x, ef, out) with k = 1 and x the feature of an inserted id.
HnswNearest ==
    /\ hnsw.last.name # "nearest"
    /\ \E id \in 0 .. (Len(hnsw.features) - 1), ef \in Efs :
          hnsw' = [hnsw EXCEPT
                      !.last = [NoQuery EXCEPT
                                   !.name = "nearest", !.id = id, !.ef = ef,
                                   !.out = hnsw_nearest(hnsw, Feature(hnsw, id), ef, 1)]]
    /\ UNCHANGED <<cap, size, worst, distances, panicked, stream, pre, op, dist>>

NextHnsw == HnswInsert \/ HnswNearest

SpecHnsw == InitHnsw /\ [][NextHnsw]_vars

-----------------------------------------------------------------------------
(* Properties of the queue *)

\* The items the queue q holds.
HeldBy(q) == UNION {Range(q.distances[i]) : i \in Buckets}

Held == HeldBy(Self)

\* The number of items stored across all buckets.
Count == Len(flat_map(distances))

\* Every insert since the last reset was called with a distance in [0, 128].
InRange == \A k \in 1 .. Len(stream) : stream[k] < NumBuckets

\* Item i comes before item j: smaller distance, or the same distance and
\* inserted earlier.
Closer(i, j) ==
    \/ stream[i] < stream[j]
    \/ stream[i] = stream[j] /\ i < j

\* The k items of the stream that come first.
Smallest(k) ==
    {i \in 1 .. Len(stream) :
        Cardinality({j \in 1 .. Len(stream) : Closer(j, i)}) < k}

\* The last call was a drain consumed to the end.
DrainedToEnd == op.name = "drain" /\ op.n = Len(flat_map(pre.distances))

\* C1: after reset(cap), cap >= 1, and n inserts with distances in [0, 128],
\* the queue holds exactly the min(n, cap) items of the stream with the
\* smallest distances, an earlier item being preferred among equal distances.
C1_Completeness ==
    (cap >= 1 /\ InRange) =>
        /\ Held = Smallest(Min(Len(stream), cap))
        /\ Count = Min(Len(stream), cap)

\* An item was evicted, and a tie at the worst distance kept the earlier item.
C1_Witness ==
    /\ cap >= 2 /\ InRange /\ Len(stream) > cap
    /\ \E i \in 1 .. cap : i \notin Held
    /\ \E i \in Held : \E j \in (1 .. Len(stream)) \ Held :
          stream[i] = stream[j] /\ i < j

\* C2: insert with a distance in [0, 128] returns true exactly when size < cap
\* or d < worst held before the call, false exactly when the queue was full
\* and d >= worst, and a call that returns false changes no field.
C2_InsertResult ==
    (op.name = "insert" /\ op.d < NumBuckets) =>
        /\ ~ panicked
        /\ op.ret <=> (pre.size < pre.cap \/ op.d < pre.worst)
        /\ (~ op.ret) <=> (pre.size = pre.cap /\ op.d >= pre.worst)
        /\ (~ op.ret) => Self = pre

\* A full queue holding items rejected an insert at its worst distance.
C2_Witness ==
    /\ op.name = "insert" /\ ~ op.ret
    /\ pre.cap >= 2 /\ pre.size = pre.cap
    /\ op.d = pre.worst /\ op.d < NumBuckets - 1

\* C3: after reset(cap) and inserts with distances in [0, 128], worst is 128
\* while the queue holds fewer than cap items, and is the index of the highest
\* bucket that is not empty once the queue is full.
C3_Worst ==
    (cap >= 1 /\ InRange) =>
        /\ size < cap => worst = WorstInit
        /\ size = cap =>
              /\ distances[worst] # <<>>
              /\ \A i \in Buckets : i > worst => distances[i] = <<>>

\* An eviction from a full queue lowered worst.
C3_Witness ==
    /\ cap >= 2 /\ InRange /\ size = cap
    /\ op.name = "insert" /\ op.ret /\ pre.size = pre.cap
    /\ worst < pre.worst /\ pre.worst < WorstInit

\* C4: a drain consumed to the end yields every held item exactly once, with
\* the distance it was inserted with, in ascending distance, items of equal
\* distance in the order of their insertion.
C4_DrainOrder ==
    DrainedToEnd =>
        /\ Len(op.yielded) = Cardinality(HeldBy(pre))
        /\ {op.yielded[k][1] : k \in 1 .. Len(op.yielded)} = HeldBy(pre)
        /\ \A k \in 1 .. Len(op.yielded) :
              /\ op.yielded[k][1] \in 1 .. Len(stream)
              /\ op.yielded[k][2] = stream[op.yielded[k][1]]
        /\ \A k \in 1 .. Len(op.yielded) : \A l \in 1 .. Len(op.yielded) :
              k < l => Closer(op.yielded[k][1], op.yielded[l][1])

\* A drain of a full queue, yielding two items of one distance and one of
\* another.
C4_Witness ==
    /\ DrainedToEnd /\ pre.cap >= 1 /\ pre.size = pre.cap
    /\ Len(op.yielded) >= 3
    /\ \E k \in 1 .. (Len(op.yielded) - 1) :
          op.yielded[k][2] = op.yielded[k + 1][2]
    /\ \E k \in 1 .. (Len(op.yielded) - 1) :
          op.yielded[k][2] < op.yielded[k + 1][2]

\* C5: after a drain consumed to the end the queue is empty: no bucket holds
\* an item and size is 0.
C5_DrainEmpties ==
    DrainedToEnd =>
        /\ \A i \in Buckets : distances[i] = <<>>
        /\ size = 0

\* C6: fill_slice(out) returns the prefix of out of length min(|out|, size);
\* every slot of the prefix has been written with a held item, in ascending
\* distance and insertion order within a bucket; the slots after the prefix
\* and the queue are unchanged.
C6_FillSlice ==
    op.name = "fill_slice" =>
        LET items == flat_map(pre.distances)
        IN  /\ op.n = Min(Len(op.s), pre.size)
            /\ Len(op.out) = Len(op.s)
            /\ \A ix \in 1 .. op.n :
                  ix <= Len(items) /\ op.out[ix] = items[ix][1]
            /\ \A ix \in (op.n + 1) .. Len(op.s) : op.out[ix] = op.s[ix]
            /\ Self = pre

\* C7: after reset(cap) and any insert and fill_slice calls, size is the number
\* of items stored across the buckets and is at most cap; an accepted insert on
\* a full queue adds its item and evicts exactly one, leaving the count at cap.
C7_Size ==
    (cap >= 1 /\ InRange) =>
        /\ size = Count
        /\ size <= cap
        /\ (op.name = "insert" /\ op.ret /\ pre.size = pre.cap) =>
              /\ Count = cap
              /\ op.item \in Held
              /\ Cardinality(HeldBy(pre) \ Held) = 1

\* An accepted insert on a full queue.
C7_Witness ==
    /\ cap >= 2 /\ InRange
    /\ op.name = "insert" /\ op.ret /\ pre.size = pre.cap

\* C8: reset(cap), cap >= 1, in any state leaves every bucket empty, size 0,
\* worst 128 and cap the argument: nothing of the state before it remains.
C8_Reset ==
    (op.name = "reset" /\ op.cap >= 1) =>
        /\ ~ panicked
        /\ Self = [cap |-> op.cap, size |-> 0, worst |-> WorstInit,
                   distances |-> [i \in Buckets |-> <<>>]]

\* A reset of a full queue that had evicted, to another cap.
C8_Witness ==
    /\ op.name = "reset" /\ op.cap >= 1 /\ op.cap # pre.cap
    /\ pre.cap >= 1 /\ pre.size = pre.cap /\ pre.worst < WorstInit
    /\ HeldBy(pre) # {}

\* C9: reset(0) panics at its assertion and leaves cap, size, worst and every
\* bucket as they were.
C9_ResetZero ==
    (op.name = "reset" /\ op.cap = 0) =>
        /\ panicked
        /\ Self = pre

\* reset(0) on a queue that holds items.
C9_Witness ==
    /\ op.name = "reset" /\ op.cap = 0 /\ panicked
    /\ size >= 1 /\ Held # {} /\ worst < WorstInit

-----------------------------------------------------------------------------
(* Properties of the distances *)

\* C10: every Distance implementation of distance.rs returns, for all inputs,
\* a value in [0, 128], the bucket indices of the NearestQueue.
C10_DistanceInRange ==
    dist.done => dist.result \in Buckets

-----------------------------------------------------------------------------
(* Properties of the queue, from new() *)

\* C16: between two resets worst never increases: after an insert, accepted
\* or rejected, a fill_slice or a drain, worst is at most what it was before
\* the call.
C16_WorstNonIncreasing ==
    op.name \in {"insert", "fill_slice", "drain"} => worst <= pre.worst

\* After a drain of a full queue, an accepted insert lowered worst.
C16_Witness ==
    /\ op.name = "insert" /\ op.ret
    /\ pre.cap >= 1 /\ pre.size = pre.cap /\ HeldBy(pre) = {}
    /\ worst < pre.worst /\ pre.worst < WorstInit

\* update_worst ran in the last call of insert: the call filled the queue, or
\* it was accepted by a full queue.
UpdateWorstRan ==
    /\ op.name = "insert" /\ op.d < NumBuckets
    /\ \/ pre.size # pre.cap /\ pre.size + 1 = pre.cap
       \/ pre.size = pre.cap /\ op.d < pre.worst

\* C17: in every state reached from new() through reset(cap >= 1), insert with
\* d in [0, 128], fill_slice and drain, insert with d in [0, 128] does not
\* panic: when update_worst runs, a bucket at an index <= worst holds an item,
\* so unwrap succeeds and worst stays a bucket index.
C17_InsertNoPanic ==
    /\ (op.name = "insert" /\ op.d < NumBuckets) => ~ panicked
    /\ worst \in Buckets
    /\ UpdateWorstRan =>
          /\ position(distances, pre.worst) # -1
          /\ distances[worst] # <<>>

\* An insert accepted by a queue that is full by its size and holds no item:
\* after a drain, and on the queue new() built.
C17_Witness ==
    /\ UpdateWorstRan /\ ~ panicked
    /\ pre.size = pre.cap /\ HeldBy(pre) = {}
    /\ Len(stream) >= 2

\* C18: in every state reached from new() through reset, insert with d in
\* [0, 128] and drain, the buckets hold at most cap items; the queue new()
\* built, never reset, holds none.
C18_CountAtMostCap ==
    InRange => Count <= cap

\* C19: insert with d > 128 stores nothing and changes no field: on a queue
\* that is not full the call panics at the bucket index, before size is
\* incremented; on a full queue it returns false.
C19_OutOfRange ==
    (op.name = "insert" /\ op.d >= NumBuckets) =>
        /\ Self = pre
        /\ pre.size # pre.cap => panicked
        /\ pre.size = pre.cap => (~ panicked /\ ~ op.ret)

\* insert(_, 129) panicked on a queue that holds an item and is not full.
C19_Witness ==
    /\ op.name = "insert" /\ op.d >= NumBuckets /\ panicked
    /\ size >= 1 /\ size < cap /\ Held # {}

\* insert(_, 129) returned false on a full queue.
C19_WitnessFull ==
    /\ op.name = "insert" /\ op.d >= NumBuckets /\ ~ op.ret /\ ~ panicked
    /\ cap >= 1 /\ size = cap

-----------------------------------------------------------------------------
(* Properties of the floating distance *)

\* The value of a float [e, m] that is not negative, infinite or NaN is
\* significand * 2^(exponent - 150).
significand(f) == IF f.e = 0 THEN f.m ELSE 8388608 + f.m

exponent(f) == IF f.e = 0 THEN 1 ELSE f.e

RECURSIVE pow2(_)
pow2(n) == IF n = 0 THEN 1 ELSE 2 * pow2(n - 1)

\* a < b as values.  A significand is below 2^24, so a shift of 25 or more
\* binary places decides the comparison unless the shifted one is 0.
float_lt(a, b) ==
    LET sa == significand(a)
        sb == significand(b)
        d == exponent(a) - exponent(b)
    IN  IF d = 0 THEN sa < sb
        ELSE IF d > 0 THEN
            IF d >= 25 THEN sa = 0 /\ sb > 0
            ELSE sa < (sb + pow2(d) - 1) \div pow2(d)
        ELSE
            IF -d >= 25 THEN sb > 0
            ELSE sa \div pow2(-d) < sb

\* a == b as values.
float_eq(a, b) == ~ float_lt(a, b) /\ ~ float_lt(b, a)

\* C15: the distance derived from FloatingDistance preserves order: for two
\* floats a, b that are not negative, infinite or NaN, a < b exactly when
\* a.to_bits() < b.to_bits(), and a == b gives equal integers.
C15_OrderPreserved ==
    dist.done =>
        /\ float_lt(dist.lhs, dist.rhs) <=> dist.result[1] < dist.result[2]
        /\ float_eq(dist.lhs, dist.rhs) => dist.result[1] = dist.result[2]

\* A subnormal with the greatest mantissa below a normal float with mantissa 0.
C15_Witness ==
    /\ dist.done /\ float_lt(dist.lhs, dist.rhs)
    /\ dist.lhs.e = 0 /\ dist.rhs.e >= 1
    /\ dist.lhs.m > dist.rhs.m

-----------------------------------------------------------------------------
(* Properties of the HNSW index *)

Layers == 0 .. Top(hnsw)

Lists(l, a, b) == a \in DOMAIN Layer(hnsw, l) /\ b \in Range(Layer(hnsw, l)[a])

\* C11: after any sequence of inserts the neighbor relation of every layer is
\* symmetric: if a lists b on layer l then b lists a on layer l.
C11_Symmetric ==
    \A l \in Layers : \A a \in DOMAIN Layer(hnsw, l) :
        \A b \in Range(Layer(hnsw, l)[a]) : Lists(l, b, a)

\* A list was re-pruned: on a layer >= 1 a node at its cap is listed by a node
\* it does not list.
C12_Witness ==
    /\ Len(hnsw.features) = MaxNodes
    /\ \E l \in Layers : \E a \in DOMAIN Layer(hnsw, l) :
          /\ l >= 1
          /\ Len(Layer(hnsw, l)[a]) = MaxNeighbors(hnsw, l)
          /\ \E b \in DOMAIN Layer(hnsw, l) : Lists(l, b, a) /\ ~ Lists(l, a, b)
    /\ \E a \in DOMAIN Layer(hnsw, 0) :
          Len(Layer(hnsw, 0)[a]) = MaxNeighbors(hnsw, 0)

\* C12: no neighbor list on layer 0 has more than 2 M entries and none on a
\* layer >= 1 has more than M.
C12_Degree ==
    \A l \in Layers : \A a \in DOMAIN Layer(hnsw, l) :
        Len(Layer(hnsw, l)[a]) <= MaxNeighbors(hnsw, l)

\* C13: every feature-id with a node on a layer l > 0 has a node on layer
\* l - 1.
C13_Containment ==
    \A l \in Layers : l > 0 => DOMAIN Layer(hnsw, l) \subseteq DOMAIN Layer(hnsw, l - 1)

\* Inserts with a level above, equal to and below the top layer of their time:
\* the first feature is on layer 0 alone, a later one raised the top layer and
\* became the entry point, and features followed it on both layers.
C13_Witness ==
    /\ Top(hnsw) = 1 /\ hnsw.entry >= 1
    /\ 0 \notin DOMAIN Layer(hnsw, 1)
    /\ \E a \in DOMAIN Layer(hnsw, 1) : a > hnsw.entry
    /\ \E a \in DOMAIN Layer(hnsw, 0) : a > hnsw.entry /\ a \notin DOMAIN Layer(hnsw, 1)

\* C14: for every inserted feature x, nearest(x, ef, out) with ef >= 1 and
\* k = 1 returns a feature-id assigned to x, at distance 0 from the query.
C14_FindsItself ==
    hnsw.last.name = "nearest" =>
        /\ Len(hnsw.last.out) = 1
        /\ hnsw.last.out[1] \in 0 .. (Len(hnsw.features) - 1)
        /\ Feature(hnsw, hnsw.last.out[1]) = Feature(hnsw, hnsw.last.id)
        /\ distance(Feature(hnsw, hnsw.last.id), Feature(hnsw, hnsw.last.out[1])) = 0

====
